---- MODULE Spec2Model ----
(***************************************************************************)
(* A model of ilinkedlist.py: immutable singly linked lists made of nil    *)
(* and Pair nodes.  Nodes live in a heap, so that "the very same node"     *)
(* (structural sharing) and "an equal copy" are different things.          *)
(***************************************************************************)
EXTENDS Integers, Sequences, FiniteSets, TLC

\* ------------------------------------------------------------------ bounds
\* Calls are made while at most MaxNodes Pairs exist, so the lists they are
\* made on have at most MaxNodes nodes.
MaxNodes == 3

\* The elements stored in lists are 1..MaxElem.
MaxElem == 2
Elems == 1..MaxElem

\* Integer arguments: every position of every such list, counted from
\* either end, and one position beyond on both sides.
Idx == (0 - (MaxNodes + 1))..(MaxNodes + 1)

\* ------------------------------------------------------------------ values
\* Every Python value of the model is a pair <<tag, n>>.
nil == <<"nil", 0>>
None == <<"None", 0>>
True == <<"bool", 1>>
False == <<"bool", 0>>
IndexError == <<"IndexError", 0>>
ValueError == <<"ValueError", 0>>
TypeError == <<"TypeError", 0>>
RuntimeError == <<"RuntimeError", 0>>
Ref(n) == <<"pair", n>>
Num(v) == <<"int", v>>
Bool(b) == IF b THEN True ELSE False

\* The non-list value used as the last cdr of an improper list (93, 94, ...
\* in the tests); two of them, so that improper lists can differ only there.
Atoms == {Num(93), Num(94)}

_isPair(x) == x[1] = "pair"
_isNil(x) == x = nil
isList(x) == _isPair(x) \/ _isNil(x)
IsError(x) ==
  x[1] \in {"IndexError", "ValueError", "TypeError", "RuntimeError"}

\* A call's outcome: the heap after it and the value returned (or raised).
Out(h, v) == [heap |-> h, val |-> v]

\* ------------------------------------------------------------------ Pair
\* Pair.__init__ counting a cdr that is neither a Pair nor nil as one more
\* element.
PairCountingCdr(h, car, cdr) ==
  Out(Append(h, [car |-> car, cdr |-> cdr,
                 len |-> (IF _isPair(cdr) THEN h[cdr[2]].len
                          ELSE IF _isNil(cdr) THEN 0 ELSE 1) + 1]),
      Ref(Len(h) + 1))

\* Pair.__init__: a fresh node; _len counts the Pairs of the chain.
Pair(h, car, cdr) ==
  Out(Append(h, [car |-> car, cdr |-> cdr,
                 len |-> (IF _isPair(cdr) THEN h[cdr[2]].len ELSE 0) + 1]),
      Ref(Len(h) + 1))

\* _NilType.__len__ / Pair.__len__
len(h, l) == IF _isPair(l) THEN h[l[2]].len ELSE 0

\* _List.nodes: the successive Pairs of the chain, as node ids.
RECURSIVE nodes(_, _)
nodes(h, self) ==
  IF _isPair(self) THEN <<self[2]>> \o nodes(h, h[self[2]].cdr) ELSE <<>>

\* The StopIteration value of nodes(): the last cdr.
RECURSIVE lastCdr(_, _)
lastCdr(h, self) == IF _isPair(self) THEN lastCdr(h, h[self[2]].cdr) ELSE self

\* _List.__iter__: the car of every node.
iter(h, self) ==
  LET ns == nodes(h, self) IN [i \in 1..Len(ns) |-> h[ns[i]].car]

\* hash(n) of an int and hash((a, b)) of a tuple, given the hashes of its
\* items.  A hash is modelled by the sequence of the int hashes that went
\* into it: an int by itself alone, a tuple by its items' hashes one after
\* the other.  On the lists of the model this keeps apart exactly what
\* CPython's tuple hash keeps apart.
hashInt(n) == <<n>>
hashTuple(a, b) == a \o b

\* _NilType.__hash__ (0, the hash of the int 0) and Pair.__hash__,
\* hash((self.car, self.cdr)); a non-list cdr is an int.
RECURSIVE hash(_, _)
hash(h, x) ==
  IF _isNil(x) THEN hashInt(0)
  ELSE IF _isPair(x)
  THEN hashTuple(hashInt(h[x[2]].car), hash(h, h[x[2]].cdr))
  ELSE hashInt(x[2])

\* ------------------------------------------------------------------ construction
\* appendReverse pushing onto a Pair in place: the node takes the new element
\* and its old content moves to a fresh node.
RECURSIVE appendReverseInPlace(_, _, _)
appendReverseInPlace(h, self, head) ==
  IF head = <<>> THEN Out(h, self)
  ELSE IF _isPair(self)
  THEN appendReverseInPlace(
         [Append(h, h[self[2]]) EXCEPT
            ![self[2]] = [car |-> Head(head), cdr |-> Ref(Len(h) + 1),
                          len |-> h[self[2]].len + 1]],
         self, Tail(head))
  ELSE LET p == Pair(h, Head(head), self)
       IN appendReverseInPlace(p.heap, p.val, Tail(head))

\* _List.appendReverse: head is any iterable, given by the elements it yields.
RECURSIVE appendReverse(_, _, _)
appendReverse(h, self, head) ==
  IF head = <<>> THEN Out(h, self)
  ELSE LET p == Pair(h, Head(head), self)
       IN appendReverse(p.heap, p.val, Tail(head))

\* reversed(iterable)
reversed(h, iterable) == appendReverse(h, nil, iterable)

\* What iterating the temporary list reversed(iterable) yields.  The
\* temporary is garbage as soon as it has been consumed, so its nodes are
\* not kept: the caller goes on allocating in h.
reversedItems(h, iterable) ==
  LET r == reversed(h, iterable) IN iter(r.heap, r.val)

\* new reversing only once.
newOnce(h, iterable) == reversed(h, iterable)

\* new(iterable) = reversed(reversed(iterable))
new(h, iterable) == reversed(h, reversedItems(h, iterable))

\* ------------------------------------------------------------------ helpers
Minimum(S) == CHOOSE x \in S : \A y \in S : x <= y
Min(a, b) == IF a <= b THEN a ELSE b
Max(a, b) == IF a >= b THEN a ELSE b

\* itertools.islice(iterable, start, stop, step) over the elements xs; each
\* of start, stop, step is None or Num(n).  The constructor rejects negative
\* bounds and non-positive steps.
islice(xs, start, stop, step) ==
  IF \/ (start # None /\ start[2] < 0)
     \/ (stop # None /\ stop[2] < 0)
     \/ (step # None /\ step[2] < 1)
  THEN [err |-> TRUE, items |-> <<>>]
  ELSE LET a == IF start = None THEN 0 ELSE start[2]
           b == IF stop = None THEN Len(xs) ELSE Min(stop[2], Len(xs))
           st == IF step = None THEN 1 ELSE step[2]
           n == IF b > a THEN (b - a + st - 1) \div st ELSE 0
       IN [err |-> FALSE, items |-> [j \in 1..n |-> xs[a + (j - 1) * st + 1]]]

\* slice(start, stop, step).indices(size): <<start, stop, step>> clamped to
\* the sequence; a zero step is a ValueError.
indices(start, stop, step, size) ==
  LET st == IF step = None THEN 1 ELSE step[2]
      lower == IF st < 0 THEN 0 - 1 ELSE 0
      upper == IF st < 0 THEN size - 1 ELSE size
      clamp(v) == IF v < 0 THEN Max(v + size, lower) ELSE Min(v, upper)
      s0 == IF start = None THEN (IF st < 0 THEN upper ELSE lower)
            ELSE clamp(start[2])
      s1 == IF stop = None THEN (IF st < 0 THEN lower ELSE upper)
            ELSE clamp(stop[2])
  IN [err |-> st = 0, s |-> <<s0, s1, st>>]

\* ------------------------------------------------------------------ queries
\* _normalizeIndex counting a negative index from the last element.
_normalizeIndexFromLast(size, i) == i + (IF i < 0 THEN size - 1 ELSE 0)

\* _normalizeIndex
_normalizeIndex(size, i) == i + (IF i < 0 THEN size ELSE 0)

\* operator.eq / lt / le / gt / ge
compareWith(compare, x, y) ==
  CASE compare = "eq" -> x = y
    [] compare = "lt" -> x < y
    [] compare = "le" -> x <= y
    [] compare = "gt" -> x > y
    [] compare = "ge" -> x >= y

\* _compareLists letting the first pair decide, equal or not.
_compareListsFirstPair(h, a, b, compare) ==
  LET xs == iter(h, a)
      ys == iter(h, b)
  IN IF Len(xs) > 0 /\ Len(ys) > 0
     THEN compareWith(compare, xs[1], ys[1])
     ELSE compareWith(compare, len(h, a), len(h, b))

\* _compareLists: the first pair of zip(a, b) that differs decides, else
\* the lengths do.
_compareLists(h, a, b, compare) ==
  LET xs == iter(h, a)
      ys == iter(h, b)
      diff == {i \in 1..Min(Len(xs), Len(ys)) : xs[i] # ys[i]}
  IN IF diff # {}
     THEN compareWith(compare, xs[Minimum(diff)], ys[Minimum(diff)])
     ELSE compareWith(compare, len(h, a), len(h, b))

\* _List.tail: the first node whose position i has i >= index, else nil.
tail(h, self, index) ==
  LET ns == nodes(h, self)
      hit == {i \in 0..(Len(ns) - 1) : i >= index}
  IN IF hit # {} THEN Ref(ns[Minimum(hit) + 1]) ELSE nil

\* _List.__getitem__; key is <<"int", k>> or <<"slice", start, stop, step>>.
getitem(h, self, key) ==
  LET size == len(h, self)
  IN IF key[1] = "int"
     THEN LET i == _normalizeIndex(size, key[2])
              xs == iter(h, self)
          IN IF i < 0 THEN Out(h, IndexError)
             ELSE IF i < Len(xs) THEN Out(h, Num(xs[i + 1]))
             ELSE Out(h, IndexError)
     ELSE IF key[1] = "slice"
     THEN LET ix == indices(key[2], key[3], key[4], size)
              sl == islice(iter(h, self), key[2], key[3], key[4])
          IN IF ix.err THEN Out(h, ValueError)
             ELSE IF ix.s[2] >= size /\ ix.s[3] = 1
             THEN Out(h, tail(h, self, ix.s[1]))
             ELSE IF sl.err THEN Out(h, ValueError)
             ELSE new(h, sl.items)
     ELSE Out(h, TypeError)

\* ------------------------------------------------------------------ edits
\* __add__ copying the right operand as well.
addCopy(h, self, other) ==
  appendReverse(h, nil, reversedItems(h, iter(h, self) \o iter(h, other)))

\* _List.__add__
add(h, self, other) == appendReverse(h, other, reversedItems(h, iter(h, self)))

\* _List.__radd__: other is any iterable, given by the elements it yields.
radd(h, self, other) == appendReverse(h, self, reversedItems(h, other))

\* _List.__mul__
RECURSIVE mulLoop(_, _, _, _)
mulLoop(h, self, lst, n) ==
  IF n <= 0 THEN Out(h, lst)
  ELSE LET r == add(h, self, lst) IN mulLoop(r.heap, self, r.val, n - 1)

mul(h, self, n) == IF n <= 0 THEN Out(h, nil) ELSE mulLoop(h, self, self, n - 1)

\* _List.headReverse
headReverse(h, self, index) ==
  LET sl == islice(iter(h, self), None, Num(index), None)
  IN IF sl.err THEN Out(h, ValueError) ELSE appendReverse(h, nil, sl.items)

\* splitAt building the head in list order.
splitAtForward(h, self, index) ==
  LET ns == nodes(h, self)
      k == Min(Max(index, 0), Len(ns))
      head == new(h, SubSeq(iter(h, self), 1, k))
  IN [heap |-> head.heap, val |-> head.val,
      val2 |-> IF k < Len(ns) THEN Ref(ns[k + 1]) ELSE nil]

\* _List.splitAt: val is the reversed head, val2 the tail.
splitAt(h, self, index) ==
  LET ns == nodes(h, self)
      k == Min(Max(index, 0), Len(ns))
      head == appendReverse(h, nil, SubSeq(iter(h, self), 1, k))
  IN [heap |-> head.heap, val |-> head.val,
      val2 |-> IF k < Len(ns) THEN Ref(ns[k + 1]) ELSE nil]

\* setItem rebuilding the whole list.
setItemCopy(h, self, key, value) ==
  LET i == _normalizeIndex(len(h, self), key)
      xs == iter(h, self)
  IN IF i < 0 THEN Out(h, ValueError)
     ELSE new(h, [j \in 1..Max(Len(xs), i + 1) |->
                    IF j = i + 1 \/ j > Len(xs) THEN value ELSE xs[j]])

\* _List.setItem with an int key
setItem(h, self, key, value) ==
  LET i == _normalizeIndex(len(h, self), key)
      sl == islice(iter(h, self), None, Num(i), None)
      p == Pair(h, value, tail(h, self, i + 1))
  IN IF sl.err THEN Out(h, ValueError) ELSE radd(p.heap, p.val, sl.items)

\* setItem with a slice key whose range always starts at position 0.
setItemSliceFromZero(h, self, key, value) ==
  LET start == key[2]
      stop == key[3]
      step == key[4]
      xs == iter(h, self)
  IN IF stop = None /\ _isPair(self) THEN Out(h, TypeError)
     ELSE LET tl == IF stop = None THEN nil ELSE tail(h, self, stop[2])
          IN IF step = None
             THEN LET sl == islice(xs, None, start, None)
                      r == radd(h, tl, value)
                  IN IF sl.err THEN Out(h, ValueError)
                     ELSE radd(r.heap, r.val, sl.items)
             ELSE IF stop = None THEN Out(h, TypeError)
             ELSE LET sl == islice(xs, None, stop, None)
                      inRange(i) == i < stop[2] /\ i % step[2] = 0
                      taken(i) == Cardinality({j \in 0..(i - 1) : inRange(j)})
                      n == Len(sl.items)
                  IN IF sl.err THEN Out(h, ValueError)
                     ELSE IF taken(n) > Len(value) THEN Out(h, RuntimeError)
                     ELSE radd(h, tl,
                               [j \in 1..n |->
                                  IF inRange(j - 1) THEN value[taken(j - 1) + 1]
                                  ELSE sl.items[j]])

\* _List.setItem with a slice key <<"slice", start, stop, step>>; value is
\* any iterable, given by the elements it yields.
\*   tail = self.tail(key.stop): comparing a position with None is a
\*     TypeError, which a non-empty list reaches and nil does not.
\*   step None: islice(self, key.start) + (value + tail).
\*   else: range(key.start or 0, key.stop, key.step) names the positions
\*     that take next(valueIter) while enumerate(islice(self, key.stop)) is
\*     copied in front of tail; running out of values inside the generator
\*     is a RuntimeError.
setItemSlice(h, self, key, value) ==
  LET start == key[2]
      stop == key[3]
      step == key[4]
      xs == iter(h, self)
  IN IF stop = None /\ _isPair(self) THEN Out(h, TypeError)
     ELSE LET tl == IF stop = None THEN nil ELSE tail(h, self, stop[2])
          IN IF step = None
             THEN LET sl == islice(xs, None, start, None)
                      r == radd(h, tl, value)
                  IN IF sl.err THEN Out(h, ValueError)
                     ELSE radd(r.heap, r.val, sl.items)
             ELSE IF stop = None THEN Out(h, TypeError)
             ELSE LET first == IF start = None THEN 0 ELSE start[2]
                      sl == islice(xs, None, stop, None)
                      inRange(i) ==
                        i >= first /\ i < stop[2] /\ (i - first) % step[2] = 0
                      taken(i) == Cardinality({j \in 0..(i - 1) : inRange(j)})
                      n == Len(sl.items)
                  IN IF sl.err THEN Out(h, ValueError)
                     ELSE IF taken(n) > Len(value) THEN Out(h, RuntimeError)
                     ELSE radd(h, tl,
                               [j \in 1..n |->
                                  IF inRange(j - 1) THEN value[taken(j - 1) + 1]
                                  ELSE sl.items[j]])

\* _List.delItem with an int key
delItem(h, self, key) ==
  LET i == _normalizeIndex(len(h, self), key)
      sl == islice(iter(h, self), None, Num(i), None)
  IN IF sl.err THEN Out(h, ValueError)
     ELSE radd(h, tail(h, self, i + 1), sl.items)

\* insert placing x after the element at position i.
insertAfter(h, self, i, x) ==
  LET sl == islice(iter(h, self), None, Num(i + 1), None)
      p == Pair(h, x, tail(h, self, i + 1))
  IN IF sl.err THEN Out(h, ValueError) ELSE radd(p.heap, p.val, sl.items)

\* _List.insert
insert(h, self, i, x) ==
  LET sl == islice(iter(h, self), None, Num(i), None)
      p == Pair(h, x, tail(h, self, i))
  IN IF sl.err THEN Out(h, ValueError) ELSE radd(p.heap, p.val, sl.items)

\* The expression self.delItem(i).insert(i, self[i]): delItem is called
\* first, then self[i] is evaluated, then insert is called on delItem's
\* result; the first exception ends the evaluation.
delInsert(h, self, i) ==
  LET d == delItem(h, self, i)
      g == getitem(d.heap, self, Num(i))
  IN IF IsError(d.val) THEN d
     ELSE IF IsError(g.val) THEN Out(d.heap, g.val)
     ELSE insert(d.heap, d.val, i, g.val[2])

\* ------------------------------------------------------------------ state
\* heap: every Pair created so far.  call: the last call made on the
\* library, its arguments and its outcome.
VARIABLES heap, call

vars == <<heap, call>>

Lists == {nil} \cup {Ref(n) : n \in 1..Len(heap)}

RECURSIVE SeqsUpTo(_)
SeqsUpTo(n) ==
  IF n = 0 THEN {<<>>}
  ELSE SeqsUpTo(n - 1) \cup
       {Append(s, x) : s \in {t \in SeqsUpTo(n - 1) : Len(t) = n - 1}, x \in Elems}

\* The iterables handed to new, reversed and appendReverse.
Iterables == SeqsUpTo(MaxNodes)

IntKeys == {Num(k) : k \in Idx}
Bounds == {None} \cup {Num(k) : k \in Idx}
Steps == {None, Num(1), Num(2)}
SliceKeys == {<<"slice", a, b, c>> : a \in Bounds, b \in Bounds, c \in Steps}
Compares == {"eq", "lt", "le", "gt", "ge"}

\* The slice keys without a step handed to setItem: start and stop absent,
\* before the list, at every position, at the end and beyond.
EditBounds == {None} \cup {Num(k) : k \in (0 - 1)..(MaxNodes + 1)}
EditKeys == {<<"slice", a, b, None>> : a \in EditBounds, b \in EditBounds}

\* The slice keys with a step handed to setItem: start absent or at a
\* position, stop absent, at a position, at the end or beyond.
StepStarts == {None} \cup {Num(k) : k \in 0..MaxNodes}
StepStops == {None} \cup {Num(k) : k \in 0..(MaxNodes + 1)}
StepKeys == {<<"slice", a, b, Num(2)>> : a \in StepStarts, b \in StepStops}

\* The replacement values handed to setItem with a slice key.
Values == SeqsUpTo(2)

NoCall ==
  [op |-> "none", self |-> nil, other |-> nil, seq |-> <<>>, key |-> None,
   value |-> 0, res |-> nil, res2 |-> nil]

Init ==
  /\ heap = <<>>
  /\ call = NoCall

\* Calls are made one at a time, while at most MaxNodes Pairs exist.
Idle == call.op = "none" /\ Len(heap) <= MaxNodes

\* Make a call and record its outcome.
Do(c, out) ==
  /\ heap' = out.heap
  /\ call' = [c EXCEPT !.res = out.val]

\* The caller is done with the outcome of its last call; the Pairs stay.
Return ==
  /\ call.op # "none"
  /\ Len(heap) <= MaxNodes
  /\ call' = NoCall
  /\ UNCHANGED heap

PairCall ==
  Idle /\ \E x \in Elems, d \in Lists \cup Atoms :
    Do([NoCall EXCEPT !.op = "Pair", !.value = x, !.other = d],
       Pair(heap, x, d))

NewCall ==
  Idle /\ \E s \in Iterables :
    Do([NoCall EXCEPT !.op = "new", !.seq = s], new(heap, s))

ReversedCall ==
  Idle /\ \E s \in Iterables :
    Do([NoCall EXCEPT !.op = "reversed", !.seq = s], reversed(heap, s))

AppendReverseCall ==
  Idle /\ \E l \in Lists, s \in Iterables :
    Do([NoCall EXCEPT !.op = "appendReverse", !.self = l, !.seq = s],
       appendReverse(heap, l, s))

AddCall ==
  Idle /\ \E a \in Lists, b \in Lists :
    Do([NoCall EXCEPT !.op = "add", !.self = a, !.other = b], add(heap, a, b))

MulCall ==
  Idle /\ \E l \in Lists, n \in 0..2 :
    Do([NoCall EXCEPT !.op = "mul", !.self = l, !.key = Num(n)],
       mul(heap, l, n))

CompareCall ==
  Idle /\ \E a \in Lists, b \in Lists, c \in Compares :
    Do([NoCall EXCEPT !.op = c, !.self = a, !.other = b],
       Out(heap, Bool(_compareLists(heap, a, b, c))))

\* len(l): the length comes back as an int, whatever the last cdr.
LenCall ==
  Idle /\ \E l \in Lists :
    Do([NoCall EXCEPT !.op = "len", !.self = l], Out(heap, Num(len(heap, l))))

\* Iterating l to completion, as tuple(l) does: seq takes the elements
\* yielded; the generator __iter__ then returns, that is, iteration ends
\* with a StopIteration carrying None.
IterCall ==
  Idle /\ \E l \in Lists :
    Do([NoCall EXCEPT !.op = "iter", !.self = l, !.seq = iter(heap, l)],
       Out(heap, None))

\* hash(l): seq takes the hash.
HashCall ==
  Idle /\ \E l \in Lists :
    Do([NoCall EXCEPT !.op = "hash", !.self = l, !.seq = hash(heap, l)],
       Out(heap, None))

TailCall ==
  Idle /\ \E l \in Lists, k \in Idx :
    Do([NoCall EXCEPT !.op = "tail", !.self = l, !.key = Num(k)],
       Out(heap, tail(heap, l, k)))

GetitemCall ==
  Idle /\ \E l \in Lists, k \in IntKeys :
    Do([NoCall EXCEPT !.op = "getitem", !.self = l, !.key = k],
       getitem(heap, l, k))

GetSliceCall ==
  Idle /\ \E l \in Lists, k \in SliceKeys :
    Do([NoCall EXCEPT !.op = "getslice", !.self = l, !.key = k],
       getitem(heap, l, k))

HeadReverseCall ==
  Idle /\ \E l \in Lists, k \in Idx :
    Do([NoCall EXCEPT !.op = "headReverse", !.self = l, !.key = Num(k)],
       headReverse(heap, l, k))

SplitAtCall ==
  Idle /\ \E l \in Lists, k \in Idx :
    LET out == splitAt(heap, l, k)
    IN Do([NoCall EXCEPT !.op = "splitAt", !.self = l, !.key = Num(k),
                         !.res2 = out.val2], out)

SetItemCall ==
  Idle /\ \E l \in Lists, k \in Idx, v \in Elems :
    Do([NoCall EXCEPT !.op = "setItem", !.self = l, !.key = Num(k),
                      !.value = v], setItem(heap, l, k, v))

SetSliceCall ==
  Idle /\ \E l \in Lists, k \in EditKeys, s \in Values :
    Do([NoCall EXCEPT !.op = "setSlice", !.self = l, !.key = k, !.seq = s],
       setItemSlice(heap, l, k, s))

SetSliceStepCall ==
  Idle /\ \E l \in Lists, k \in StepKeys, s \in Values :
    Do([NoCall EXCEPT !.op = "setSlice", !.self = l, !.key = k, !.seq = s],
       setItemSlice(heap, l, k, s))

DelItemCall ==
  Idle /\ \E l \in Lists, k \in Idx :
    Do([NoCall EXCEPT !.op = "delItem", !.self = l, !.key = Num(k)],
       delItem(heap, l, k))

InsertCall ==
  Idle /\ \E l \in Lists, k \in Idx, v \in Elems :
    Do([NoCall EXCEPT !.op = "insert", !.self = l, !.key = Num(k),
                      !.value = v], insert(heap, l, k, v))

DelInsertCall ==
  Idle /\ \E l \in Lists, k \in Idx :
    Do([NoCall EXCEPT !.op = "delInsert", !.self = l, !.key = Num(k)],
       delInsert(heap, l, k))

\* Lists built from iterables, and every operation that derives a list or
\* an element from lists.
Next ==
  \/ NewCall
  \/ ReversedCall
  \/ AppendReverseCall
  \/ AddCall
  \/ MulCall
  \/ TailCall
  \/ GetitemCall
  \/ GetSliceCall
  \/ HeadReverseCall
  \/ SplitAtCall
  \/ SetItemCall
  \/ DelItemCall
  \/ InsertCall
  \/ Return

Spec == Init /\ [][Next]_vars

\* Construction from iterables only.
NextBuild == NewCall \/ ReversedCall \/ Return
SpecBuild == Init /\ [][NextBuild]_vars

\* Concatenation of lists built from iterables.
NextAdd == NewCall \/ AddCall \/ Return
SpecAdd == Init /\ [][NextAdd]_vars

\* Comparison of lists built node by node, improper ones included.
NextCompare == PairCall \/ CompareCall \/ Return
SpecCompare == Init /\ [][NextCompare]_vars

\* Integer keys.
NextIndex == NewCall \/ GetitemCall \/ SetItemCall \/ DelItemCall \/ Return
SpecIndex == Init /\ [][NextIndex]_vars

\* Slice keys.
NextSlice == NewCall \/ GetSliceCall \/ Return
SpecSlice == Init /\ [][NextSlice]_vars

\* tail on lists built node by node, improper ones included.
NextTail == PairCall \/ TailCall \/ Return
SpecTail == Init /\ [][NextTail]_vars

\* Removing and inserting one element.
NextEdit == NewCall \/ DelItemCall \/ InsertCall \/ DelInsertCall \/ Return
SpecEdit == Init /\ [][NextEdit]_vars

\* splitAt on lists built node by node, improper ones included.
NextSplit == PairCall \/ SplitAtCall \/ Return
SpecSplit == Init /\ [][NextSplit]_vars

\* Length and iteration of lists built node by node, improper ones included.
NextLen == PairCall \/ LenCall \/ IterCall \/ Return
SpecLen == Init /\ [][NextLen]_vars

\* Hashing and comparison of lists built node by node, improper ones
\* included.
NextHash == PairCall \/ CompareCall \/ HashCall \/ Return
SpecHash == Init /\ [][NextHash]_vars

\* setItem with slice keys without a step.
NextSetSlice == NewCall \/ SetSliceCall \/ Return
SpecSetSlice == Init /\ [][NextSetSlice]_vars

\* setItem with slice keys with a step.
NextSetSliceStep == NewCall \/ SetSliceStepCall \/ Return
SpecSetSliceStep == Init /\ [][NextSetSliceStep]_vars

\* ------------------------------------------------------------------ vocabulary of the properties
Reverse(s) == [i \in 1..Len(s) |-> s[Len(s) + 1 - i]]

\* l is a proper list: its chain of cdrs ends in nil.
Proper(l) == lastCdr(heap, l) = nil

\* What is reached from l by following cdr k times, stopping early at the
\* end of the chain.
RECURSIVE nthCdr(_, _, _)
nthCdr(h, l, k) ==
  IF k <= 0 \/ ~_isPair(l) THEN l ELSE nthCdr(h, h[l[2]].cdr, k - 1)

NodeSet(l) == {nodes(heap, l)[i] : i \in 1..Len(nodes(heap, l))}

\* xs comes before ys in lexicographic order.
LexLess(xs, ys) ==
  \/ \E i \in 1..Min(Len(xs), Len(ys)) :
       xs[i] < ys[i] /\ \A j \in 1..(i - 1) : xs[j] = ys[j]
  \/ Len(xs) < Len(ys) /\ \A j \in 1..Len(xs) : xs[j] = ys[j]

\* The elements a slice of a standard sequence selects (positive step).
StdSlice(xs, start, stop, step) ==
  LET s == indices(start, stop, step, Len(xs)).s
      n == IF s[2] > s[1] THEN (s[2] - s[1] + s[3] - 1) \div s[3] ELSE 0
  IN [j \in 1..n |-> xs[s[1] + (j - 1) * s[3] + 1]]

\* The heap is well formed: a cdr points to an older Pair, and _len counts
\* the Pairs of the chain.
HeapOK ==
  \A n \in 1..Len(heap) :
    /\ _isPair(heap[n].cdr) => heap[n].cdr[2] < n
    /\ heap[n].len = Len(nodes(heap, Ref(n)))

\* ------------------------------------------------------------------ C1
\* C1: new(s) is a list with as many nodes as s has elements, whose
\* iteration yields the elements of s in order; reversed(s) yields them in
\* the opposite order.
C1_NewPreservesOrder ==
  /\ call.op = "new" =>
       /\ isList(call.res)
       /\ len(heap, call.res) = Len(call.seq)
       /\ iter(heap, call.res) = call.seq
  /\ call.op = "reversed" =>
       /\ isList(call.res)
       /\ iter(heap, call.res) = Reverse(call.seq)

C1_Witness ==
  /\ call.op = "new"
  /\ Len(call.seq) >= 3
  /\ call.seq # Reverse(call.seq)
  /\ iter(heap, call.res) = call.seq

\* ------------------------------------------------------------------ C2
\* C2: no call changes a Pair that exists: every node keeps its car, its
\* cdr and its length, whatever the call and its arguments.
C2_NoMutation ==
  [][/\ Len(heap') >= Len(heap)
     /\ \A n \in 1..Len(heap) : heap'[n] = heap[n]]_vars

\* An edit has returned a new list that shares nodes with its receiver.
C2_Witness ==
  /\ call.op \in {"setItem", "delItem", "insert"}
  /\ _isPair(call.res)
  /\ call.res # call.self
  /\ NodeSet(call.res) \cap NodeSet(call.self) # {}
  /\ NodeSet(call.res) \ NodeSet(call.self) # {}

\* ------------------------------------------------------------------ C3
\* C3: for proper lists a and b, a + b holds a's elements then b's, has
\* length len(a) + len(b), and after its first len(a) nodes comes the very
\* node b; nil + l and l + nil equal l.
C3_Add ==
  (call.op = "add" /\ Proper(call.self) /\ Proper(call.other)) =>
    /\ isList(call.res)
    /\ iter(heap, call.res) = iter(heap, call.self) \o iter(heap, call.other)
    /\ len(heap, call.res) = len(heap, call.self) + len(heap, call.other)
    /\ nthCdr(heap, call.res, len(heap, call.self)) = call.other
    /\ call.self = nil => _compareLists(heap, call.res, call.other, "eq")
    /\ call.other = nil => _compareLists(heap, call.res, call.self, "eq")

C3_Witness ==
  /\ call.op = "add"
  /\ len(heap, call.self) >= 2
  /\ iter(heap, call.self) # Reverse(iter(heap, call.self))
  /\ _isPair(call.other)
  /\ nthCdr(heap, call.res, len(heap, call.self)) = call.other

C5_EqualIffSameTail ==
  call.op = "eq" =>
    (call.res = True <=>
       /\ Len(nodes(heap, call.self)) = Len(nodes(heap, call.other))
       /\ iter(heap, call.self) = iter(heap, call.other)
       /\ lastCdr(heap, call.self) = lastCdr(heap, call.other))

\* ------------------------------------------------------------------ C6
\* C6: on a proper list of length n, l[k] with -n <= k < n returns the
\* element at position k (k >= 0) or n + k (k < 0) and does not raise.
C6_GetitemInRange ==
  LET n == len(heap, call.self)
      k == call.key[2]
  IN (call.op = "getitem" /\ Proper(call.self) /\ 0 - n <= k /\ k < n) =>
       call.res = Num(iter(heap, call.self)[(IF k >= 0 THEN k ELSE n + k) + 1])

\* A negative key reads the element before the last, which differs from both
\* the first and the last.
C6_Witness ==
  /\ call.op = "getitem"
  /\ len(heap, call.self) >= 3
  /\ call.key[2] = 0 - 2
  /\ call.res = Num(iter(heap, call.self)[len(heap, call.self) - 1])
  /\ call.res # Num(iter(heap, call.self)[len(heap, call.self)])
  /\ call.res # Num(iter(heap, call.self)[1])

\* ------------------------------------------------------------------ C7
\* C7: on a proper list of length n, an integer key k >= n or k < -n makes
\* each of l[k], l.setItem(k, v) and l.delItem(k) raise.
C7_OutOfRangeRaises ==
  LET n == len(heap, call.self)
      k == call.key[2]
  IN (/\ call.op \in {"getitem", "setItem", "delItem"}
      /\ Proper(call.self)
      /\ (k >= n \/ k < 0 - n)) => IsError(call.res)

\* ------------------------------------------------------------------ C8
\* C8: on a proper list, l[start:stop:step] with any start and stop and a
\* positive or absent step returns the list of the elements a standard
\* sequence slice selects, and never raises.
C8_SliceSelects ==
  (call.op = "getslice" /\ Proper(call.self)) =>
    /\ isList(call.res)
    /\ iter(heap, call.res) =
         StdSlice(iter(heap, call.self), call.key[2], call.key[3], call.key[4])

\* ------------------------------------------------------------------ C9
\* C9: tail(index) with index >= 0 returns what is reached after skipping
\* index nodes: the existing node, or past the end nil for a proper list and
\* the last cdr for an improper one.
C9_TailSaturates ==
  (call.op = "tail" /\ call.key[2] >= 0) =>
    call.res = nthCdr(heap, call.self, call.key[2])

\* ------------------------------------------------------------------ C10
\* C10: on a proper list of length n and a valid index i, setItem(i, v)
\* returns a list of length n holding v at i and l's elements elsewhere,
\* whose part after position i is the very node l.tail(i + 1).
C10_SetItem ==
  LET n == len(heap, call.self)
      k == call.key[2]
      i == IF k >= 0 THEN k ELSE n + k
      xs == iter(heap, call.self)
  IN (call.op = "setItem" /\ Proper(call.self) /\ 0 - n <= k /\ k < n) =>
       /\ isList(call.res)
       /\ len(heap, call.res) = n
       /\ iter(heap, call.res) =
            [j \in 1..n |-> IF j = i + 1 THEN call.value ELSE xs[j]]
       /\ nthCdr(heap, call.res, i + 1) = nthCdr(heap, call.self, i + 1)

\* The middle element of a list of three is replaced; the last node is shared.
C10_Witness ==
  /\ call.op = "setItem"
  /\ len(heap, call.self) = 3
  /\ call.key[2] \in {1, 0 - 2}
  /\ call.value # iter(heap, call.self)[2]
  /\ iter(heap, call.res)[2] = call.value
  /\ _isPair(nthCdr(heap, call.res, 2))
  /\ nthCdr(heap, call.res, 2) = nthCdr(heap, call.self, 2)

\* ------------------------------------------------------------------ C11
\* C11: on a proper list l, setItem(slice(start, stop), values) with no step
\* and start <= stop, an absent start standing for 0 and an absent stop for
\* the length, returns l's elements before start, then the elements of
\* values, then l's elements from stop on, that last part being the very
\* node l.tail(stop).
C11_SetSliceUnitStep ==
  LET xs == iter(heap, call.self)
      n == Len(xs)
      a == IF call.key[2] = None THEN 0 ELSE call.key[2][2]
      b == IF call.key[3] = None THEN n ELSE call.key[3][2]
  IN (/\ call.op = "setSlice"
      /\ Proper(call.self)
      /\ call.key[4] = None
      /\ 0 <= a /\ a <= b) =>
       /\ isList(call.res)
       /\ iter(heap, call.res) =
            SubSeq(xs, 1, Min(a, n)) \o call.seq \o SubSeq(xs, Min(b, n) + 1, n)
       /\ nthCdr(heap, call.res, Min(a, n) + Len(call.seq)) =
            nthCdr(heap, call.self, b)

C13_RoundTripAnyIndex ==
  LET n == len(heap, call.self)
      k == call.key[2]
  IN (call.op = "delInsert" /\ Proper(call.self) /\ 0 - n <= k /\ k < n) =>
       /\ isList(call.res)
       /\ _compareLists(heap, call.res, call.self, "eq")

\* C13: on a proper list l of length n, l.delItem(i).insert(i, l[i]) is a
\* list equal to l for every i with 0 <= i < n; delItem(i) with -n <= i < n
\* removes exactly the element at position i (n + i when i < 0); and
\* insert(i, x) with 0 <= i <= n places x at position i, the later elements
\* moving up by one.
C13_RoundTrip ==
  LET xs == iter(heap, call.self)
      n == len(heap, call.self)
      k == call.key[2]
      i == IF k >= 0 THEN k ELSE n + k
  IN Proper(call.self) =>
       /\ (call.op = "delInsert" /\ 0 <= k /\ k < n) =>
            /\ isList(call.res)
            /\ _compareLists(heap, call.res, call.self, "eq")
            /\ iter(heap, call.res) = xs
       /\ (call.op = "delItem" /\ 0 - n <= k /\ k < n) =>
            /\ isList(call.res)
            /\ iter(heap, call.res) = SubSeq(xs, 1, i) \o SubSeq(xs, i + 2, n)
       /\ (call.op = "insert" /\ 0 <= k /\ k <= n) =>
            /\ isList(call.res)
            /\ iter(heap, call.res) =
                 SubSeq(xs, 1, k) \o <<call.value>> \o SubSeq(xs, k + 1, n)

\* The middle element of a list of three, different from the last, is
\* removed and put back: the result is a new list equal to l.
C13_Witness ==
  LET xs == iter(heap, call.self)
  IN /\ call.op = "delInsert"
     /\ Len(xs) = 3
     /\ call.key = Num(1)
     /\ xs[2] # xs[3]
     /\ _isPair(call.res)
     /\ call.res # call.self
     /\ iter(heap, call.res) = xs

\* ------------------------------------------------------------------ C14
\* C14: for every list l, proper or not, and index >= 0, splitAt(index)
\* returns (head, tail) where head is a list of l's first min(index, length)
\* elements in reverse order and tail is l.tail(index): the very node of l
\* at position index, or nil when index is at or beyond the length; and
\* tail.appendReverse(head) == l.
C14_SplitAt ==
  LET xs == iter(heap, call.self)
      n == Len(xs)
      k == call.key[2]
      m == Min(k, n)
      back == appendReverse(heap, call.res2, iter(heap, call.res))
  IN (call.op = "splitAt" /\ k >= 0) =>
       /\ isList(call.res) /\ Proper(call.res)
       /\ iter(heap, call.res) = Reverse(SubSeq(xs, 1, m))
       /\ call.res2 = tail(heap, call.self, k)
       /\ k < n => (_isPair(call.res2) /\ call.res2 = nthCdr(heap, call.self, k))
       /\ k >= n => call.res2 = nil
       /\ _compareLists(back.heap, back.val, call.self, "eq")
       /\ iter(back.heap, back.val) = xs

\* A list of three is split after its first two elements, which differ: the
\* head holds them in the opposite order and the tail is l's last node.
C14_Witness ==
  LET xs == iter(heap, call.self)
  IN /\ call.op = "splitAt"
     /\ Len(xs) = 3
     /\ call.key = Num(2)
     /\ xs[1] # xs[2]
     /\ iter(heap, call.res) = <<xs[2], xs[1]>>
     /\ _isPair(call.res2)
     /\ call.res2[2] \in NodeSet(call.self)

C16_HashConsistent ==
  /\ (call.op = "eq" /\ call.res = True) =>
       hash(heap, call.self) = hash(heap, call.other)
  /\ (call.op = "hash" /\ _isNil(call.self)) => call.seq = hashInt(0)
  /\ (call.op = "hash" /\ _isPair(call.self)) =>
       call.seq = hashTuple(hashInt(heap[call.self[2]].car),
                            hash(heap, heap[call.self[2]].cdr))

====
